---- MODULE Spec2Model ----
(***************************************************************************)
(* Model of the agent service: the cached agent (agent.py), the langgraph  *)
(* workflow agent -> action -> agent (agent.py), the two tool functions    *)
(* (tools.py) and the FastAPI handlers (main.py).                          *)
(*                                                                         *)
(* Texts are sequences of one-character strings; a fixed sentence of the   *)
(* program is abbreviated to one token.  None is modelled as 0.            *)
(***************************************************************************)
EXTENDS Integers, Sequences, FiniteSets, TLC

\* ------------------------------------------------------------------ bounds

\* Supersteps of the workflow explored per request.  The source sets no
\* limit on the graph; this only keeps the state space finite.
MaxSteps == 3

\* Longest assistant content explored by the chunking specification.
MaxContentLen == 15

\* The requests of one process: two, so that handlers can interleave.
Reqs == {1, 2}

None == 0

\* ------------------------------------------------------------------ state

VARIABLES
    cached_agent,   \* agent.py:22  _cached_agent (None or the compiled app's id)
    built,          \* history: number of apps compiled so far (ids 1..built)
    attempts,       \* history: number of construction attempts
    startup,        \* "pending" until startup_event has run, then "done"
    busy,           \* the request whose handler occupies the event loop, or None
    kind,           \* kind[r]: "none", "root", "health", "simple", "stream"
    pc,             \* pc[r]: position of request r's handler / graph
    agent,          \* agent[r]: the app the handler obtained
    messages,       \* messages[r]: AgentState["messages"] of r's run
    events,         \* events[r]: the SSE events r's stream has yielded
    response,       \* response[r]: the HTTP response of r (None until returned)
    steps,          \* steps[r]: supersteps r's run has executed
    content_in,     \* chunking specification: the content under test
    chunks_out,     \* chunking specification: the events produced for it
    tool_in,        \* tool specification: the call and what the provider does
    tool_out,       \* tool specification: what the call left
    wire_in,        \* wire specification: the event to send
    wire_out        \* wire specification: the text yielded for it

vars == <<cached_agent, built, attempts, startup, busy, kind, pc, agent,
          messages, events, response, steps, content_in, chunks_out,
          tool_in, tool_out, wire_in, wire_out>>

reqVars == <<kind, pc, agent, messages, events, response, steps>>
toolVars == <<tool_in, tool_out>>
wireVars == <<wire_in, wire_out>>
chunkVars == <<content_in, chunks_out, toolVars, wireVars>>

\* ------------------------------------------------------------------ texts

Whitespace == {" ", "\n"}

\* str.strip(): leading and trailing whitespace removed.
RECURSIVE LStrip(_)
LStrip(s) ==
    IF s # <<>> /\ Head(s) \in Whitespace THEN LStrip(Tail(s)) ELSE s

RECURSIVE RStrip(_)
RStrip(s) ==
    IF s # <<>> /\ s[Len(s)] \in Whitespace
    THEN RStrip(SubSeq(s, 1, Len(s) - 1))
    ELSE s

Strip(s) == RStrip(LStrip(s))

\* str.split() with no separator: the maximal runs of non-whitespace.
RECURSIVE SplitFrom(_, _, _)
SplitFrom(s, word, acc) ==
    IF s = <<>>
    THEN IF word = <<>> THEN acc ELSE Append(acc, word)
    ELSE IF Head(s) \in Whitespace
         THEN SplitFrom(Tail(s), <<>>,
                        IF word = <<>> THEN acc ELSE Append(acc, word))
         ELSE SplitFrom(Tail(s), Append(word, Head(s)), acc)

Split(s) == SplitFrom(s, <<>>, <<>>)

\* ------------------------------------------------------------------ events

\* main.py:134  a chunk is sent once it holds this many words.
ChunkWords == 4

ConnectionEvent == [type |-> "connection", message |-> <<"Connected to agent">>]
CompleteEvent == [type |-> "complete", message |-> <<"Response complete">>]
ErrorEvent(msg) == [type |-> "error", message |-> msg]
ToolCallEvent(call) == [type |-> "tool_call", name |-> call.name, args |-> call.args]
ContentEvent(text) == [type |-> "content", text |-> text]
ToolResultEvent(text) == [type |-> "tool_result", content |-> text]

\* A test that closes a chunk one word late.
ChunkFull_late(current_chunk) == Len(Split(current_chunk)) > ChunkWords

\* main.py:134  the test that closes a chunk.
ChunkFull(current_chunk) == Len(Split(current_chunk)) >= ChunkWords

\* main.py:141-142  what is sent after the loop over the words.
Remainder(current_chunk) ==
    IF Strip(current_chunk) # <<>>
    THEN <<ContentEvent(Strip(current_chunk))>>
    ELSE <<>>

\* main.py:129-142  the loop over the words, from word i on.
RECURSIVE ChunkLoop(_, _, _, _)
ChunkLoop(words, i, current_chunk, out) ==
    IF i > Len(words)
    THEN out \o Remainder(current_chunk)
    ELSE LET grown == current_chunk \o words[i] \o <<" ">>
         IN  IF ChunkFull(grown)
             THEN ChunkLoop(words, i + 1, <<>>,
                            Append(out, ContentEvent(Strip(grown))))
             ELSE ChunkLoop(words, i + 1, grown, out)

\* main.py:124-142  the content events of one assistant message.
ContentEvents(content) ==
    IF content # <<>> THEN ChunkLoop(Split(content), 1, <<>>, <<>>) ELSE <<>>

\* main.py:119-121  the tool_call events of one assistant message.
ToolCallEvents(tool_calls) ==
    [j \in 1..Len(tool_calls) |-> ToolCallEvent(tool_calls[j])]

\* An agent branch that sends the content before the tool calls.
AgentEvents_content_first(msgs) ==
    IF msgs # <<>>
    THEN LET last_message == msgs[Len(msgs)]
         IN  ContentEvents(last_message.content)
             \o ToolCallEvents(last_message.tool_calls)
    ELSE <<>>

\* An action branch that looks at the last message only, as the agent
\* branch does.
ActionEvents_last_only(msgs) ==
    IF msgs = <<>> \/ msgs[Len(msgs)].content = <<>> THEN <<>>
    ELSE <<ToolResultEvent(msgs[Len(msgs)].content)>>

\* main.py:113-142  the branch for an output of the "agent" node.
AgentEvents(msgs) ==
    IF msgs # <<>>
    THEN LET last_message == msgs[Len(msgs)]
         IN  ToolCallEvents(last_message.tool_calls)
             \o ContentEvents(last_message.content)
    ELSE <<>>

\* main.py:144-149  the branch for an output of the "action" node: one
\* event per message whose content is not empty.
RECURSIVE ActionEvents(_)
ActionEvents(msgs) ==
    IF msgs = <<>> THEN <<>>
    ELSE (IF Head(msgs).content # <<>>
          THEN <<ToolResultEvent(Head(msgs).content)>>
          ELSE <<>>) \o ActionEvents(Tail(msgs))

\* ------------------------------------------------------------------ tools

\* What the market-data provider does during one call of a tool.
RealtimeLookups == {"last_price", "close", "no_rows", "fast_info_raises", "history_raises"}
HistoricalLookups == {"rows", "empty", "history_raises"}

\* str(e) of the exception a provider call raises.
ProviderError == <<"provider error">>

\* What a call leaves: the value it returns, or the exception it raises
\* (value is then str(e)).
Returns(text) == [raised |-> FALSE, value |-> text]
Raises(msg) == [raised |-> TRUE, value |-> msg]

\* tools.py:19-30  the body of the try of retrieve_realtime_stock_price.
realtime_try(symbol, lookup) ==
    CASE lookup = "fast_info_raises" -> Raises(ProviderError)
      [] lookup = "last_price" ->
             Returns(<<"The real-time stock price for", symbol, "is $price currency.">>)
      [] lookup = "history_raises" -> Raises(ProviderError)
      [] lookup = "close" ->
             Returns(<<"The real-time stock price for", symbol, "is $price currency.">>)
      [] OTHER ->
             Returns(<<"Could not retrieve real-time price for", symbol,
                       "The symbol may be invalid.">>)

\* tools.py:18-33
retrieve_realtime_stock_price(symbol, lookup) ==
    LET done == realtime_try(symbol, lookup)
    IN  IF done.raised
        THEN Returns(<<"An error occurred while retrieving the price for", symbol>>
                     \o done.value)
        ELSE done

\* tools.py:48-65  the body of the try of retrieve_historical_stock_price.
historical_try(args, lookup) ==
    CASE lookup = "history_raises" -> Raises(ProviderError)
      [] lookup = "empty" ->
             Returns(<<"No historical data found for", args.symbol, "between",
                       args.start_date, "and", args.end_date>>)
      [] OTHER ->
             Returns(<<"For", args.symbol, "between", args.start_date, "and",
                       args.end_date,
                       "the opening price was $o, the closing price was $c, the highest price was $h, and the lowest price was $l.">>)

\* A retrieve_historical_stock_price without its except clause.
retrieve_historical_stock_price_no_except(args, lookup) ==
    historical_try(args, lookup)

\* tools.py:47-68
retrieve_historical_stock_price(args, lookup) ==
    LET done == historical_try(args, lookup)
    IN  IF done.raised
        THEN Returns(<<"An error occurred while retrieving historical data for",
                       args.symbol>> \o done.value)
        ELSE done

\* agent.py:42  the tools the ToolNode and the model are given.
tools == {"retrieve_realtime_stock_price", "retrieve_historical_stock_price"}

\* What the provider may do during a call of the tool of that name.
LookupsFor(name) ==
    CASE name = "retrieve_realtime_stock_price" -> RealtimeLookups
      [] name = "retrieve_historical_stock_price" -> HistoricalLookups
      [] OTHER -> {"not_called"}

\* The ToolNode's answer to a call of a name it does not hold.
InvalidToolText(name) == <<"Error:", name, "is not a valid tool">>

ToolMessage(content, call) ==
    [role |-> "tool", content |-> content, name |-> call.name,
     tool_call_id |-> call.id]

\* The ToolNode's answer to a call whose tool raised.
ToolErrorText(msg) == <<"Error:">> \o msg \o <<"Please fix your mistakes.">>

\* agent.py:46  ToolNode(tools) run on one call.
run_one(call, lookup) ==
    IF call.name \notin tools
    THEN ToolMessage(InvalidToolText(call.name), call)
    ELSE LET done == IF call.name = "retrieve_realtime_stock_price"
                     THEN retrieve_realtime_stock_price(call.args.symbol, lookup)
                     ELSE retrieve_historical_stock_price(call.args, lookup)
         IN  ToolMessage(IF done.raised THEN ToolErrorText(done.value) ELSE done.value,
                         call)

\* A ToolNode that runs only the first call of a message.
tool_node_first_only(msgs, lookups) ==
    LET tool_calls == msgs[Len(msgs)].tool_calls
    IN  [j \in 1..(IF tool_calls = <<>> THEN 0 ELSE 1) |->
            run_one(tool_calls[j], lookups[j])]

\* agent.py:46, 123  the "action" node: one ToolMessage per tool call of the
\* last message, in the order of the calls.
tool_node(msgs, lookups) ==
    LET tool_calls == msgs[Len(msgs)].tool_calls
    IN  [j \in 1..Len(tool_calls) |-> run_one(tool_calls[j], lookups[j])]

\* The provider behaviours possible during the calls of one message.
LookupSeqs(tool_calls) ==
    {l \in [1..Len(tool_calls) ->
              RealtimeLookups \cup HistoricalLookups \cup {"not_called"}] :
        \A j \in 1..Len(tool_calls) : l[j] \in LookupsFor(tool_calls[j].name)}

\* ------------------------------------------------------------------ agent

\* str(e) of the exceptions the environment raises.
ConstructionError == <<"construction error">>
ModelError == <<"model error">>

\* A get_agent_executor without the test of the cache.
get_agent_executor_no_cache(ok) ==
    IF ok
    THEN [raised |-> FALSE, app |-> built + 1, cache |-> built + 1,
          built |-> built + 1, attempts |-> attempts + 1]
    ELSE [raised |-> TRUE, app |-> None, cache |-> cached_agent,
          built |-> built, attempts |-> attempts + 1]

\* A get_agent_executor that stores the app before the step that fails.
get_agent_executor_stores_early(ok) ==
    IF cached_agent # None
    THEN [raised |-> FALSE, app |-> cached_agent, cache |-> cached_agent,
          built |-> built, attempts |-> attempts]
    ELSE IF ok
         THEN [raised |-> FALSE, app |-> built + 1, cache |-> built + 1,
               built |-> built + 1, attempts |-> attempts + 1]
         ELSE [raised |-> TRUE, app |-> None, cache |-> built + 1,
               built |-> built, attempts |-> attempts + 1]

\* agent.py:24-149  get_agent_executor().  ok says whether building the
\* client, the model and the graph succeeds this time.  The function has no
\* await and runs on the event loop's thread, so a call is one step.  The
\* result carries what the call returns and what it leaves in the globals.
get_agent_executor(ok) ==
    IF cached_agent # None
    THEN [raised |-> FALSE, app |-> cached_agent, cache |-> cached_agent,
          built |-> built, attempts |-> attempts]
    ELSE IF ok
         THEN [raised |-> FALSE, app |-> built + 1, cache |-> built + 1,
               built |-> built + 1, attempts |-> attempts + 1]
         ELSE [raised |-> TRUE, app |-> None, cache |-> cached_agent,
               built |-> built, attempts |-> attempts + 1]

Globals(g) ==
    /\ cached_agent' = g.cache
    /\ built' = g.built
    /\ attempts' = g.attempts

HumanMessage(content) == [role |-> "user", content |-> content]

AIMessage(content, tool_calls) ==
    [role |-> "assistant", content |-> content, tool_calls |-> tool_calls]

Chars(n) == [i \in 1..(2 * n - 1) |->
                IF i % 2 = 0 THEN " " ELSE <<"a", "b", "c", "d", "e">>[(i + 1) \div 2]]

RealtimeCall == [name |-> "retrieve_realtime_stock_price", args |-> [symbol |-> "AAPL"]]
HistoricalCall ==
    [name |-> "retrieve_historical_stock_price",
     args |-> [symbol |-> "AAPL", start_date |-> "2024-01-01", end_date |-> "2024-01-31"]]
UnknownCall == [name |-> "get_news", args |-> [symbol |-> "AAPL"]]

\* What the hosted model may answer: text, tool calls, or both.
ModelReplies ==
    { [content |-> Chars(5), tool_calls |-> <<>>],
      [content |-> <<>>, tool_calls |-> <<>>],
      [content |-> <<>>, tool_calls |-> <<RealtimeCall>>],
      [content |-> Chars(2), tool_calls |-> <<HistoricalCall, RealtimeCall>>],
      [content |-> <<>>, tool_calls |-> <<UnknownCall>>] }

\* The model gives every tool call of an answer its own id.
WithIds(tool_calls, turn) ==
    [j \in 1..Len(tool_calls) |->
        [name |-> tool_calls[j].name, args |-> tool_calls[j].args, id |-> <<turn, j>>]]

\* agent.py:105-114  the "agent" node: the update it returns.
call_model(msgs, reply) ==
    <<AIMessage(reply.content, WithIds(reply.tool_calls, Len(msgs) + 1))>>

\* A should_continue that never looks at the tool calls.
should_continue_always(msgs) == "continue"

\* agent.py:92-103
should_continue(msgs) ==
    LET last_message == msgs[Len(msgs)]
    IN  IF last_message.tool_calls = <<>> THEN "end" ELSE "continue"

\* agent.py:129-136  the conditional edge out of "agent".
AfterAgent(msgs) == IF should_continue(msgs) = "continue" THEN "action" ELSE "END"

\* agent.py:141  the edge out of "action".
AfterAction == "agent"

\* A messages channel without a reducer: the update replaces the value.
AddMessages_overwrite(msgs, update) == update

\* agent.py:19  operator.add on the messages channel.
AddMessages(msgs, update) == msgs \o update

\* ------------------------------------------------------------------ handlers

NoResponse == [status |-> None]

\* The variables of the specifications of single functions, at rest.
NoCall == [tool |-> "none"]
NotCalled == [done |-> FALSE, raised |-> FALSE, value |-> <<>>]
NoEvent == [type |-> "none"]
NotSent == [done |-> FALSE, text |-> <<>>]
RootBody == [status |-> "ok"]
HealthBody == [status |-> "healthy", message |-> "FastAPI server is running"]

\* The request's query text.
Query(r) == <<"query", ToString(r)>>

Init ==
    /\ cached_agent = None
    /\ built = 0
    /\ attempts = 0
    /\ startup = "pending"
    /\ busy = None
    /\ kind = [r \in Reqs |-> "none"]
    /\ pc = [r \in Reqs |-> "idle"]
    /\ agent = [r \in Reqs |-> None]
    /\ messages = [r \in Reqs |-> <<>>]
    /\ events = [r \in Reqs |-> <<>>]
    /\ response = [r \in Reqs |-> NoResponse]
    /\ steps = [r \in Reqs |-> 0]
    /\ content_in = <<>>
    /\ chunks_out = [done |-> FALSE, events |-> <<>>]
    /\ tool_in = NoCall
    /\ tool_out = NotCalled
    /\ wire_in = NoEvent
    /\ wire_out = NotSent

\* main.py:22-32  startup_event: the exception of a failed construction is
\* caught and logged.  The server accepts requests once the hook has run.
startup_event ==
    /\ startup = "pending"
    /\ \E ok \in BOOLEAN : Globals(get_agent_executor(ok))
    /\ startup' = "done"
    /\ UNCHANGED <<busy, reqVars, chunkVars>>

\* A request is taken up when the server is up and the event loop is free;
\* requests are numbered in the order they are taken up.
Accepts(r) ==
    /\ startup = "done"
    /\ busy = None
    /\ pc[r] = "idle"
    /\ \A q \in Reqs : q < r => pc[q] # "idle"

\* main.py:41-44
root(r) ==
    /\ Accepts(r)
    /\ kind' = [kind EXCEPT ![r] = "root"]
    /\ response' = [response EXCEPT ![r] = [status |-> 200, body |-> RootBody]]
    /\ pc' = [pc EXCEPT ![r] = "done"]
    /\ UNCHANGED <<cached_agent, built, attempts, startup, busy, agent,
                   messages, events, steps, chunkVars>>

\* A health check that reports the state of the agent.
health_needs_agent(r) ==
    /\ Accepts(r)
    /\ kind' = [kind EXCEPT ![r] = "health"]
    /\ response' = [response EXCEPT ![r] =
                       IF cached_agent # None
                       THEN [status |-> 200, body |-> HealthBody]
                       ELSE [status |-> 503, body |-> HealthBody]]
    /\ pc' = [pc EXCEPT ![r] = "done"]
    /\ UNCHANGED <<cached_agent, built, attempts, startup, busy, agent,
                   messages, events, steps, chunkVars>>

\* main.py:46-49
health(r) ==
    /\ Accepts(r)
    /\ kind' = [kind EXCEPT ![r] = "health"]
    /\ response' = [response EXCEPT ![r] = [status |-> 200, body |-> HealthBody]]
    /\ pc' = [pc EXCEPT ![r] = "done"]
    /\ UNCHANGED <<cached_agent, built, attempts, startup, busy, agent,
                   messages, events, steps, chunkVars>>

\* main.py:79-81  the except clause of invoke_agent_simple.
SimpleError(msg) == [status |-> 200, body |-> [error |-> msg]]

\* A handler that answers with the first message of the final state.
SimpleResult_first(msgs) ==
    IF msgs # <<>>
    THEN [status |-> 200, body |-> [response |-> msgs[1].content]]
    ELSE [status |-> 200, body |-> [response |-> <<"No response generated">>]]

\* main.py:70-77  the body invoke_agent_simple returns for a finished run.
SimpleResult(msgs) ==
    IF msgs # <<>>
    THEN [status |-> 200, body |-> [response |-> msgs[Len(msgs)].content]]
    ELSE [status |-> 200, body |-> [response |-> <<"No response generated">>]]

\* main.py:53-67  invoke_agent_simple up to the call of agent.invoke, which
\* is synchronous: the handler keeps the event loop until it returns.
invoke_agent_simple(r) ==
    /\ Accepts(r)
    /\ kind' = [kind EXCEPT ![r] = "simple"]
    /\ \E ok \in BOOLEAN :
          LET g == get_agent_executor(ok)
          IN  /\ Globals(g)
              /\ IF g.raised
                 THEN /\ response' = [response EXCEPT ![r] = SimpleError(ConstructionError)]
                      /\ pc' = [pc EXCEPT ![r] = "done"]
                      /\ UNCHANGED <<agent, messages, busy>>
                 ELSE /\ agent' = [agent EXCEPT ![r] = g.app]
                      /\ messages' = [messages EXCEPT ![r] = <<HumanMessage(Query(r))>>]
                      /\ pc' = [pc EXCEPT ![r] = "agent"]
                      /\ busy' = r
                      /\ UNCHANGED response
    /\ UNCHANGED <<startup, events, steps, chunkVars>>

\* An invoke_agent that obtains the agent inside the try of the generator:
\* a failed construction is sent as an error event on an opened stream.
invoke_agent_in_try(r) ==
    /\ Accepts(r)
    /\ kind' = [kind EXCEPT ![r] = "stream"]
    /\ \E ok \in BOOLEAN :
          LET g == get_agent_executor(ok)
          IN  /\ Globals(g)
              /\ response' = [response EXCEPT ![r] =
                                 [status |-> 200, body |-> "text/event-stream"]]
              /\ IF g.raised
                 THEN /\ events' = [events EXCEPT ![r] = <<ErrorEvent(ConstructionError)>>]
                      /\ pc' = [pc EXCEPT ![r] = "done"]
                      /\ UNCHANGED agent
                 ELSE /\ agent' = [agent EXCEPT ![r] = g.app]
                      /\ pc' = [pc EXCEPT ![r] = "open"]
                      /\ UNCHANGED events
    /\ UNCHANGED <<startup, busy, messages, steps, chunkVars>>

\* main.py:84-90, 166-170  invoke_agent: the agent is obtained, then the
\* StreamingResponse is returned; an exception of get_agent_executor leaves
\* the handler.
invoke_agent(r) ==
    /\ Accepts(r)
    /\ kind' = [kind EXCEPT ![r] = "stream"]
    /\ \E ok \in BOOLEAN :
          LET g == get_agent_executor(ok)
          IN  /\ Globals(g)
              /\ IF g.raised
                 THEN /\ response' = [response EXCEPT ![r] =
                                         [status |-> 500, body |-> ConstructionError]]
                      /\ pc' = [pc EXCEPT ![r] = "raised"]
                      /\ UNCHANGED agent
                 ELSE /\ agent' = [agent EXCEPT ![r] = g.app]
                      /\ response' = [response EXCEPT ![r] =
                                         [status |-> 200, body |-> "text/event-stream"]]
                      /\ pc' = [pc EXCEPT ![r] = "open"]
    /\ UNCHANGED <<startup, busy, messages, events, steps, chunkVars>>

\* main.py:99-105  stream_generator up to the first yield.
stream_open(r) ==
    /\ pc[r] = "open"
    /\ busy = None
    /\ messages' = [messages EXCEPT ![r] = <<HumanMessage(Query(r))>>]
    /\ events' = [events EXCEPT ![r] = <<ConnectionEvent>>]
    /\ pc' = [pc EXCEPT ![r] = "agent"]
    /\ UNCHANGED <<cached_agent, built, attempts, startup, busy, kind, agent,
                   response, steps, chunkVars>>

\* The run of request r may take a step: the event loop is free or its own.
Runs(r, node) ==
    /\ pc[r] = node
    /\ busy \in {None, r}
    /\ kind[r] = "simple" <=> busy = r

\* A generator that sends the completion signal after every agent output.
StreamEvents_complete_early(node, update) ==
    IF node = "agent" THEN Append(AgentEvents(update), CompleteEvent)
    ELSE IF node = "action" THEN ActionEvents(update)
    ELSE <<>>

\* main.py:109-149  what stream_generator yields for one output of astream.
StreamEvents(node, update) ==
    IF node = "agent" THEN AgentEvents(update)
    ELSE IF node = "action" THEN ActionEvents(update)
    ELSE <<>>

\* A superstep on a conversation state that the runs in flight share.
Superstep_shared(r, node, update, next) ==
    /\ messages' = [q \in Reqs |->
                       IF q = r \/ messages[q] # <<>>
                       THEN AddMessages(messages[q], update)
                       ELSE messages[q]]
    /\ steps' = [steps EXCEPT ![r] = steps[r] + 1]
    /\ pc' = [pc EXCEPT ![r] = next]
    /\ events' = [events EXCEPT ![r] =
                     IF kind[r] = "stream"
                     THEN events[r] \o StreamEvents(node, update)
                     ELSE events[r]]
    /\ UNCHANGED <<cached_agent, built, attempts, startup, busy, kind, agent,
                   response, chunkVars>>

\* One superstep of the graph at `node` with the update the node returns,
\* and, on /invoke, the events stream_generator yields for it.
Superstep(r, node, update, next) ==
    /\ messages' = [messages EXCEPT ![r] = AddMessages(messages[r], update)]
    /\ steps' = [steps EXCEPT ![r] = steps[r] + 1]
    /\ pc' = [pc EXCEPT ![r] = next]
    /\ events' = [events EXCEPT ![r] =
                     IF kind[r] = "stream"
                     THEN events[r] \o StreamEvents(node, update)
                     ELSE events[r]]
    /\ UNCHANGED <<cached_agent, built, attempts, startup, busy, kind, agent,
                   response, chunkVars>>

\* agent.py:105-114, 129-136  the "agent" node answers.
agent_node(r) ==
    /\ Runs(r, "agent")
    /\ steps[r] < MaxSteps
    /\ \E reply \in ModelReplies :
          LET update == call_model(messages[r], reply)
          IN  Superstep(r, "agent", update,
                        AfterAgent(AddMessages(messages[r], update)))

\* agent.py:46, 123, 141  the "action" node runs the tools.
action_node(r) ==
    /\ Runs(r, "action")
    /\ steps[r] < MaxSteps
    /\ \E lookups \in LookupSeqs(messages[r][Len(messages[r])].tool_calls) :
          Superstep(r, "action", tool_node(messages[r], lookups), AfterAction)

\* A handler that sends the completion signal after the error event.
StreamError_then_complete(evs, msg) ==
    Append(Append(evs, ErrorEvent(msg)), CompleteEvent)

\* main.py:154-156  the except clause of stream_generator.
StreamError(evs, msg) == Append(evs, ErrorEvent(msg))

\* main.py:79-81, 154-156  an exception leaves agent.invoke / agent.astream.
Except(r, msg) ==
    /\ pc' = [pc EXCEPT ![r] = "done"]
    /\ IF kind[r] = "simple"
       THEN /\ response' = [response EXCEPT ![r] = SimpleError(msg)]
            /\ busy' = None
            /\ UNCHANGED events
       ELSE /\ events' = [events EXCEPT ![r] = StreamError(events[r], msg)]
            /\ UNCHANGED <<response, busy>>
    /\ UNCHANGED <<cached_agent, built, attempts, startup, kind, agent,
                   messages, steps, chunkVars>>

\* agent.py:112  chain.invoke raises (the hosted model cannot be reached).
agent_node_raises(r) ==
    /\ Runs(r, "agent")
    /\ steps[r] < MaxSteps
    /\ Except(r, ModelError)

\* main.py:67-77  agent.invoke returns the final state.
simple_return(r) ==
    /\ Runs(r, "END")
    /\ kind[r] = "simple"
    /\ response' = [response EXCEPT ![r] = SimpleResult(messages[r])]
    /\ pc' = [pc EXCEPT ![r] = "done"]
    /\ busy' = None
    /\ UNCHANGED <<cached_agent, built, attempts, startup, kind, agent,
                   messages, events, steps, chunkVars>>

\* main.py:151-152  astream is exhausted.
stream_complete(r) ==
    /\ Runs(r, "END")
    /\ kind[r] = "stream"
    /\ events' = [events EXCEPT ![r] = Append(events[r], CompleteEvent)]
    /\ pc' = [pc EXCEPT ![r] = "done"]
    /\ UNCHANGED <<cached_agent, built, attempts, startup, busy, kind, agent,
                   messages, response, steps, chunkVars>>

Next ==
    \/ startup_event
    \/ \E r \in Reqs : root(r)
    \/ \E r \in Reqs : health(r)
    \/ \E r \in Reqs : invoke_agent_simple(r)
    \/ \E r \in Reqs : invoke_agent(r)
    \/ \E r \in Reqs : stream_open(r)
    \/ \E r \in Reqs : agent_node(r)
    \/ \E r \in Reqs : agent_node_raises(r)
    \/ \E r \in Reqs : action_node(r)
    \/ \E r \in Reqs : simple_return(r)
    \/ \E r \in Reqs : stream_complete(r)

Spec == Init /\ [][Next]_vars

\* ------------------------------------------------------------------ chunking

\* The specification of the content chunking of stream_generator on its
\* own: every content over Alphabet up to MaxContentLen characters is given
\* to the "agent" branch, with and without tool calls.
Alphabet == {"a", " "}

Contents == UNION {[1..n -> Alphabet] : n \in 0..MaxContentLen}

InitChunk ==
    /\ cached_agent = None
    /\ built = 0
    /\ attempts = 0
    /\ startup = "pending"
    /\ busy = None
    /\ kind = [r \in Reqs |-> "none"]
    /\ pc = [r \in Reqs |-> "idle"]
    /\ agent = [r \in Reqs |-> None]
    /\ messages = [r \in Reqs |-> <<>>]
    /\ events = [r \in Reqs |-> <<>>]
    /\ response = [r \in Reqs |-> NoResponse]
    /\ steps = [r \in Reqs |-> 0]
    /\ content_in \in Contents
    /\ chunks_out = [done |-> FALSE, events |-> <<>>]
    /\ tool_in = NoCall
    /\ tool_out = NotCalled
    /\ wire_in = NoEvent
    /\ wire_out = NotSent

\* main.py:113-142 applied to an assistant message with that content.
stream_agent_output ==
    /\ ~chunks_out.done
    /\ \E tool_calls \in {<<>>, WithIds(<<RealtimeCall>>, 2)} :
          chunks_out' = [done |-> TRUE,
                         events |-> AgentEvents(<<AIMessage(content_in, tool_calls)>>)]
    /\ UNCHANGED <<cached_agent, built, attempts, startup, busy, reqVars, content_in,
                   toolVars, wireVars>>

NextChunk == stream_agent_output

SpecChunk == InitChunk /\ [][NextChunk]_vars

\* ------------------------------------------------------------------ claims

IsAssistant(m) == m.role = "assistant"
IsToolResult(m) == m.role = "tool"

\* The tool-result turns i+1..i+n answer the calls of the assistant turn i,
\* one each and in the order of the calls.
AnsweredAt(msgs, i) ==
    LET calls == msgs[i].tool_calls
        n == Len(calls)
    IN  /\ Len(msgs) >= i + n
        /\ \A j \in 1..n :
              /\ IsToolResult(msgs[i + j])
              /\ msgs[i + j].tool_call_id = calls[j].id
              /\ msgs[i + j].name = calls[j].name
        /\ Len(msgs) > i + n => IsAssistant(msgs[i + n + 1])

\* C1: in every conversation of a run, an assistant turn with N >= 1 tool
\* calls is either the last turn with the tool execution due next, or is
\* followed at once by exactly N tool-result turns, one per call and in the
\* order of the calls, and then by nothing or by the next assistant turn; an
\* assistant turn without tool calls is followed by nothing, and every
\* tool-result turn answers a call of the assistant turn before its block.
C1_ToolResultsFollowCalls ==
    \A r \in Reqs :
        LET msgs == messages[r]
        IN  \A i \in 1..Len(msgs) :
               /\ (IsAssistant(msgs[i]) /\ msgs[i].tool_calls # <<>>) =>
                     IF i = Len(msgs)
                     THEN pc[r] = "action"
                     ELSE AnsweredAt(msgs, i)
               /\ (IsAssistant(msgs[i]) /\ msgs[i].tool_calls = <<>>) => i = Len(msgs)
               /\ IsToolResult(msgs[i]) =>
                     \E k \in 1..(i - 1) :
                        /\ IsAssistant(msgs[k])
                        /\ i - k <= Len(msgs[k].tool_calls)
                        /\ \A m \in (k + 1)..i : IsToolResult(msgs[m])

\* A run in which a turn with two calls was answered by two results and the
\* model then spoke again.
C1_Witness ==
    \E r \in Reqs :
        /\ Len(messages[r]) >= 5
        /\ IsAssistant(messages[r][2])
        /\ Len(messages[r][2].tool_calls) = 2
        /\ IsToolResult(messages[r][3])
        /\ IsToolResult(messages[r][4])
        /\ IsAssistant(messages[r][5])

\* C2: the loop starts at the Model step; a Model step appends one assistant
\* turn and goes to END when that turn has no tool calls and to ToolExec
\* otherwise; a ToolExec step goes to the Model step; END is entered from a
\* Model step only, and after END the run takes no step.
C2_Step(r) ==
    /\ (messages[r] = <<>> /\ messages'[r] # <<>>) => pc'[r] = "agent"
    /\ (pc[r] = "agent" /\ messages'[r] # messages[r]) =>
          /\ Len(messages'[r]) = Len(messages[r]) + 1
          /\ IsAssistant(messages'[r][Len(messages'[r])])
          /\ pc'[r] = IF messages'[r][Len(messages'[r])].tool_calls = <<>>
                      THEN "END" ELSE "action"
    /\ (pc[r] = "action" /\ pc'[r] # "action") => pc'[r] = "agent"
    /\ (pc'[r] = "END" /\ pc[r] # "END") => pc[r] = "agent"
    /\ pc[r] \in {"END", "done"} =>
          /\ messages'[r] = messages[r]
          /\ steps'[r] = steps[r]
          /\ pc'[r] \in {"END", "done"}

C2_TransitionRule == [][\A r \in Reqs : C2_Step(r)]_vars

\* A run that went Model, ToolExec, Model and then reached END.
C2_Witness ==
    \E r \in Reqs : pc[r] = "END" /\ steps[r] = 3 /\ Len(messages[r]) >= 4

Count(evs, type) == Cardinality({i \in 1..Len(evs) : evs[i].type = type})
LastMessage(r) == messages[r][Len(messages[r])]
LastEvent(r) == events[r][Len(events[r])]
FinalAnswered(r) ==
    /\ messages[r] # <<>>
    /\ IsAssistant(LastMessage(r))
    /\ LastMessage(r).tool_calls = <<>>

\* C4: on an /invoke stream the first event is the one connection event; a
\* complete event is sent at most once, is the last event, and is sent only
\* when the last turn is an assistant turn without tool calls whose events
\* were sent before it; a stream that ended without an error event ends with
\* the complete event.
C4_StreamFraming ==
    \A r \in Reqs :
        (kind[r] = "stream" /\ events[r] # <<>>) =>
            /\ events[r][1].type = "connection"
            /\ Count(events[r], "connection") = 1
            /\ Count(events[r], "complete") <= 1
            /\ Count(events[r], "complete") = 1 =>
                  /\ LastEvent(r).type = "complete"
                  /\ pc[r] = "done"
                  /\ FinalAnswered(r)
                  /\ Count(events[r], "error") = 0
                  /\ LET final == AgentEvents(<<LastMessage(r)>>)
                     IN  /\ Len(events[r]) >= Len(final) + 2
                         /\ SubSeq(events[r], Len(events[r]) - Len(final),
                                   Len(events[r]) - 1) = final
            /\ (pc[r] = "done" /\ Count(events[r], "error") = 0) =>
                  LastEvent(r).type = "complete"
            /\ (pc[r] = "END") => Count(events[r], "complete") = 0

\* A stream that ran Model, ToolExec, Model and was completed after the
\* chunks of the final answer.
C4_Witness ==
    \E r \in Reqs :
        /\ kind[r] = "stream"
        /\ pc[r] = "done"
        /\ steps[r] = 3
        /\ Len(events[r]) >= 5
        /\ LastEvent(r).type = "complete"
        /\ events[r][Len(events[r]) - 1].type = "content"

\* C5 (state part): an /invoke stream holds at most one error event; the
\* error event is the last event, comes without a complete event, carries
\* the message of the exception, and ends the run; a finished stream ends
\* with exactly one of complete and error.
C5_State ==
    \A r \in Reqs :
        (kind[r] = "stream" /\ events[r] # <<>>) =>
            /\ Count(events[r], "error") <= 1
            /\ Count(events[r], "error") = 1 =>
                  /\ LastEvent(r) = ErrorEvent(ModelError)
                  /\ Count(events[r], "complete") = 0
                  /\ pc[r] = "done"
            /\ pc[r] = "done" =>
                  /\ Count(events[r], "error") + Count(events[r], "complete") = 1
                  /\ LastEvent(r).type \in {"error", "complete"}

\* C5 (step part): a stream whose run leaves a node for the end of the
\* handler without an output (an exception) gets the error event of that
\* exception appended, and a finished stream never changes again: no event
\* follows, and the loop is not run again.
C5_Step(r) ==
    /\ (kind[r] = "stream" /\ pc[r] \in {"agent", "action"} /\ pc'[r] = "done") =>
          /\ events'[r] = Append(events[r], ErrorEvent(ModelError))
          /\ messages'[r] = messages[r]
    /\ (kind[r] = "stream" /\ pc[r] = "done") =>
          /\ events'[r] = events[r]
          /\ messages'[r] = messages[r]
          /\ steps'[r] = steps[r]
          /\ pc'[r] = "done"

\* C5: an exception during the stream yields exactly one error event, last.
C5_ErrorEndsStream == []C5_State /\ [][\A r \in Reqs : C5_Step(r)]_vars

\* A stream in which the model call failed after a tool execution.
C5_Witness ==
    \E r \in Reqs :
        /\ kind[r] = "stream"
        /\ pc[r] = "done"
        /\ steps[r] = 2
        /\ LastEvent(r).type = "error"
        /\ Count(events[r], "tool_result") >= 1

\* C6 (state part): /invoke-simple never lets an exception out and answers
\* with status 200: with {response: content of the final assistant turn}
\* when the run reached END, and with {error: message} in every other case.
C6_State ==
    \A r \in Reqs :
        kind[r] = "simple" =>
            /\ pc[r] # "raised"
            /\ pc[r] # "done" => response[r] = NoResponse
            /\ pc[r] = "done" =>
                  /\ response[r].status = 200
                  /\ IF FinalAnswered(r)
                     THEN response[r].body = [response |-> LastMessage(r).content]
                     ELSE /\ DOMAIN response[r].body = {"error"}
                          /\ response[r].body.error \in {ConstructionError, ModelError}

\* C6 (step part): the body, once returned, is the request's only answer.
C6_Step(r) ==
    (kind[r] = "simple" /\ pc[r] = "done") =>
        /\ response'[r] = response[r]
        /\ pc'[r] = "done"
        /\ messages'[r] = messages[r]

\* C6: /invoke-simple answers in-band, once, with response or error.
C6_SimpleAnswersInBand == []C6_State /\ [][\A r \in Reqs : C6_Step(r)]_vars

\* A simple request answered with the final text after a tool execution,
\* next to one answered with an error.
C6_Witness ==
    /\ \E r \in Reqs :
          /\ kind[r] = "simple"
          /\ pc[r] = "done"
          /\ steps[r] = 3
          /\ DOMAIN response[r].body = {"response"}
          /\ response[r].body.response = Chars(5)
    /\ \E r \in Reqs :
          /\ kind[r] = "simple"
          /\ pc[r] = "done"
          /\ DOMAIN response[r].body = {"error"}

NeedsAgent(r) == kind[r] \in {"simple", "stream"}

\* C7 (state part): at most one app is ever built; the cache holds nothing
\* or that app, and every handler that obtained an app holds that same app.
C7_State ==
    /\ built <= 1
    /\ cached_agent \in {None, 1}
    /\ cached_agent = None <=> built = 0
    /\ \A r \in Reqs : agent[r] # None => (agent[r] = 1 /\ cached_agent = 1)
    /\ \A r \in Reqs : (NeedsAgent(r) /\ pc[r] \notin {"done", "raised"}) => agent[r] = 1

\* C7 (step part): the call that finds the cache empty and succeeds builds
\* and stores the app; once the cache is filled no call builds or replaces.
C7_Step ==
    /\ cached_agent # None =>
          /\ cached_agent' = cached_agent
          /\ built' = built
          /\ attempts' = attempts
    /\ built' # built => (cached_agent = None /\ cached_agent' = built')

\* C7: the agent is successfully constructed at most once per process and
\* every later call returns the cached instance.
C7_ConstructedOnce == []C7_State /\ [][C7_Step]_vars

\* Two requests of different kinds hold the one app, built once.
C7_Witness ==
    /\ agent[1] = 1
    /\ agent[2] = 1
    /\ built = 1
    /\ attempts = 1
    /\ kind[1] # kind[2]

\* C8 (state part): the cache never holds anything but a fully built app.
C8_State ==
    /\ cached_agent # None => (cached_agent \in 1..built)
    /\ built = 0 => cached_agent = None

\* C8 (step part): the startup hook ends with the server up whether or not
\* the construction failed, a failed attempt leaves the cache as it was, and
\* a request that needs the agent and finds the cache empty attempts the
\* construction again.
C8_Step ==
    /\ (startup = "pending" /\ attempts' # attempts) => startup' = "done"
    /\ (attempts' # attempts /\ built' = built) => cached_agent' = cached_agent
    /\ \A r \in Reqs :
          (kind[r] = "none" /\ NeedsAgent(r)' /\ cached_agent = None) =>
              attempts' = attempts + 1

\* C8: a failed construction aborts nothing and caches nothing, and the next
\* request constructs again.
C8_FailedConstructionRetried == []C8_State /\ [][C8_Step]_vars

\* Startup failed to construct, the server came up, and a later request
\* constructed the agent.
C8_Witness ==
    /\ startup = "done"
    /\ attempts = 2
    /\ built = 1
    /\ cached_agent = 1
    /\ \E r \in Reqs : NeedsAgent(r) /\ agent[r] = 1

\* C9 (state part): GET / and GET /health answer 200 with their fixed
\* bodies and hold no agent, and are served whatever the cache holds.
C9_State ==
    \A r \in Reqs :
        /\ Accepts(r) => (ENABLED root(r) /\ ENABLED health(r))
        /\ kind[r] = "root" =>
              (pc[r] = "done" /\ response[r] = [status |-> 200, body |-> RootBody]
               /\ agent[r] = None)
        /\ kind[r] = "health" =>
              (pc[r] = "done" /\ response[r] = [status |-> 200, body |-> HealthBody]
               /\ agent[r] = None)

\* C9 (step part): serving them leaves the cache and the construction
\* counts as they were.
C9_Step ==
    \A r \in Reqs :
        (kind[r] = "none" /\ kind'[r] \in {"root", "health"}) =>
            /\ cached_agent' = cached_agent
            /\ built' = built
            /\ attempts' = attempts

\* C9: GET / and GET /health do not depend on the agent.
C9_HealthIndependent == []C9_State /\ [][C9_Step]_vars

\* /health answered while the agent's construction had failed, and / answered
\* next to it.
C9_Witness ==
    /\ cached_agent = None
    /\ attempts >= 1
    /\ \E r \in Reqs : kind[r] = "health" /\ response[r].status = 200
    /\ \E r \in Reqs : kind[r] = "root" /\ response[r].status = 200

\* The words of the chunks, in the order of the events.
RECURSIVE WordsOf(_)
WordsOf(evs) ==
    IF evs = <<>> THEN <<>> ELSE Split(Head(evs).text) \o WordsOf(Tail(evs))

ContentOf(evs) == SelectSeq(evs, LAMBDA e : e.type = "content")

\* C10: for a content of n words the stream sends ceil(n/4) content events;
\* every event but the last holds exactly 4 words, the last holds 1 to 4,
\* and the words of the events in order are the words of the content; the
\* content events follow the tool_call events of the turn.
C10_ChunksOfFour ==
    chunks_out.done =>
        LET words == Split(content_in)
            n == Len(words)
            sent == ContentOf(chunks_out.events)
        IN  /\ Len(sent) = (n + ChunkWords - 1) \div ChunkWords
            /\ \A k \in 1..Len(sent) :
                  /\ k < Len(sent) => Len(Split(sent[k].text)) = ChunkWords
                  /\ Len(Split(sent[k].text)) \in 1..ChunkWords
                  /\ sent[k].text = Strip(sent[k].text)
            /\ WordsOf(sent) = words
            /\ n = ChunkWords => Len(sent) = 1
            /\ content_in = <<>> => sent = <<>>

\* A content of more than four words, sent as a full chunk and a rest.
C10_Witness ==
    /\ chunks_out.done
    /\ Len(Split(content_in)) = 6
    /\ Len(ContentOf(chunks_out.events)) = 2
    /\ Len(Split(ContentOf(chunks_out.events)[2].text)) = 2

\* The events a step appended to the stream of r.
NewEvents(r) == SubSeq(events'[r], Len(events[r]) + 1, Len(events'[r]))

\* The turns a step appended to the conversation of r.
NewMessages(r) == SubSeq(messages'[r], Len(messages[r]) + 1, Len(messages'[r]))

\* C11: a Model step on an /invoke stream sends, for an assistant turn with
\* n tool calls, first n tool_call events, the j-th carrying the name and
\* the arguments of the j-th call, and after them nothing but the content
\* events of the turn; the step leaves the events sent before as they were.
C11_Step(r) ==
    (kind[r] = "stream" /\ pc[r] = "agent" /\ messages'[r] # messages[r]) =>
        LET turn == messages'[r][Len(messages'[r])]
            calls == turn.tool_calls
            new == NewEvents(r)
        IN  /\ SubSeq(events'[r], 1, Len(events[r])) = events[r]
            /\ Len(new) >= Len(calls)
            /\ \A j \in 1..Len(calls) :
                  /\ new[j].type = "tool_call"
                  /\ new[j].name = calls[j].name
                  /\ new[j].args = calls[j].args
            /\ \A k \in (Len(calls) + 1)..Len(new) : new[k].type = "content"
            /\ Len(new) - Len(calls) = Len(ContentEvents(turn.content))

C11_ToolCallEvents == [][\A r \in Reqs : C11_Step(r)]_vars

\* A stream that sent the two tool_call events of a turn, in the order of
\* the calls, and then the content of the same turn.
C11_Witness ==
    \E r \in Reqs :
        /\ kind[r] = "stream"
        /\ Len(events[r]) >= 4
        /\ events[r][2].type = "tool_call"
        /\ events[r][2].name = "retrieve_historical_stock_price"
        /\ events[r][3].type = "tool_call"
        /\ events[r][3].name = "retrieve_realtime_stock_price"
        /\ events[r][4].type = "content"

\* The events stream_generator owes to a conversation: per assistant turn
\* its tool_call and content events, per tool-result turn one tool_result.
RECURSIVE EventsFor(_)
EventsFor(msgs) ==
    IF msgs = <<>> THEN <<>>
    ELSE LET m == Head(msgs)
         IN  (IF IsAssistant(m)
              THEN [j \in 1..Len(m.tool_calls) |->
                       [type |-> "tool_call", name |-> m.tool_calls[j].name,
                        args |-> m.tool_calls[j].args]]
                   \o ContentEvents(m.content)
              ELSE IF IsToolResult(m)
                   THEN <<[type |-> "tool_result", content |-> m.content]>>
                   ELSE <<>>)
             \o EventsFor(Tail(msgs))

\* The events of r without the closing complete or error event.
BodyEvents(r) ==
    IF events[r] # <<>> /\ LastEvent(r).type \in {"complete", "error"}
    THEN SubSeq(events[r], 2, Len(events[r]) - 1)
    ELSE SubSeq(events[r], 2, Len(events[r]))

\* C12 (state part): between the connection event and the closing event the
\* stream holds, turn by turn and in the order of the conversation, the
\* events of each assistant turn and one tool_result event with the raw
\* text of each tool-result turn: the tool_result events of a ToolExec step
\* stand after the events of the Model step that asked for them and before
\* the events of the next Model step.
C12_State ==
    \A r \in Reqs :
        (kind[r] = "stream" /\ events[r] # <<>>) =>
            BodyEvents(r) = EventsFor(messages[r])

\* C12 (step part): a ToolExec step sends exactly one tool_result event per
\* turn it appended, in the order of the turns, with the turn's text.
C12_Step(r) ==
    (kind[r] = "stream" /\ pc[r] = "action" /\ pc'[r] = "agent") =>
        /\ Len(NewEvents(r)) = Len(NewMessages(r))
        /\ \A j \in 1..Len(NewMessages(r)) :
              NewEvents(r)[j] =
                 [type |-> "tool_result", content |-> NewMessages(r)[j].content]

C12_ToolResultEvents == []C12_State /\ [][\A r \in Reqs : C12_Step(r)]_vars

\* A stream with two tool_result events between the events of the Model
\* step that asked for them and the events of the next Model step.
C12_Witness ==
    \E r \in Reqs :
        /\ kind[r] = "stream"
        /\ Len(events[r]) >= 7
        /\ events[r][3].type = "tool_call"
        /\ events[r][4].type = "content"
        /\ events[r][5].type = "tool_result"
        /\ events[r][6].type = "tool_result"
        /\ events[r][5].content # events[r][6].content
        /\ events[r][7].type \in {"tool_call", "content"}

\* ------------------------------------------------------------------ tools alone

\* The specification of the two tool functions on their own: every call
\* over these arguments, under everything the provider may do.
Symbols == {"AAPL", "AMZN", "XXXX"}
Dates == {"2024-01-01", "2024-01-31", "not-a-date"}

ToolCalls ==
    {[tool |-> "retrieve_realtime_stock_price", args |-> [symbol |-> sy],
      lookup |-> l] : sy \in Symbols, l \in RealtimeLookups}
    \cup
    {[tool |-> "retrieve_historical_stock_price",
      args |-> [symbol |-> sy, start_date |-> d1, end_date |-> d2],
      lookup |-> l] : sy \in Symbols, d1 \in Dates, d2 \in Dates,
                      l \in HistoricalLookups}

\* The state of the service before startup, which these specifications
\* leave alone.
AtRest ==
    /\ cached_agent = None
    /\ built = 0
    /\ attempts = 0
    /\ startup = "pending"
    /\ busy = None
    /\ kind = [r \in Reqs |-> "none"]
    /\ pc = [r \in Reqs |-> "idle"]
    /\ agent = [r \in Reqs |-> None]
    /\ messages = [r \in Reqs |-> <<>>]
    /\ events = [r \in Reqs |-> <<>>]
    /\ response = [r \in Reqs |-> NoResponse]
    /\ steps = [r \in Reqs |-> 0]

InitTools ==
    /\ AtRest
    /\ content_in = <<>>
    /\ chunks_out = [done |-> FALSE, events |-> <<>>]
    /\ tool_in \in ToolCalls
    /\ tool_out = NotCalled
    /\ wire_in = NoEvent
    /\ wire_out = NotSent

\* tools.py:6-7, 41-42  the tool is called with these arguments.
call_tool ==
    /\ ~tool_out.done
    /\ LET done == IF tool_in.tool = "retrieve_realtime_stock_price"
                   THEN retrieve_realtime_stock_price(tool_in.args.symbol, tool_in.lookup)
                   ELSE retrieve_historical_stock_price(tool_in.args, tool_in.lookup)
       IN  tool_out' = [done |-> TRUE, raised |-> done.raised, value |-> done.value]
    /\ UNCHANGED <<cached_agent, built, attempts, startup, busy, reqVars,
                   content_in, chunks_out, tool_in, wireVars>>

NextTools == call_tool

SpecTools == InitTools /\ [][NextTools]_vars

ProviderRaises(lookup) == lookup \in {"fast_info_raises", "history_raises"}

\* C13: a call of either tool function raises nothing and returns a text,
\* whatever the provider does; when the provider raises, the text is the
\* tool's error sentence with the symbol and the message of the exception;
\* a historical lookup without rows returns the no-data sentence, which is
\* not the error sentence.
C13_ToolsNeverRaise ==
    tool_out.done =>
        /\ ~tool_out.raised
        /\ tool_out.value # <<>>
        /\ (tool_in.tool = "retrieve_realtime_stock_price"
              /\ ProviderRaises(tool_in.lookup)) =>
              tool_out.value =
                 <<"An error occurred while retrieving the price for",
                   tool_in.args.symbol>> \o ProviderError
        /\ (tool_in.tool = "retrieve_historical_stock_price"
              /\ ProviderRaises(tool_in.lookup)) =>
              tool_out.value =
                 <<"An error occurred while retrieving historical data for",
                   tool_in.args.symbol>> \o ProviderError
        /\ (tool_in.tool = "retrieve_historical_stock_price"
              /\ tool_in.lookup = "empty") =>
              tool_out.value =
                 <<"No historical data found for", tool_in.args.symbol, "between",
                   tool_in.args.start_date, "and", tool_in.args.end_date>>
        /\ ~ProviderRaises(tool_in.lookup) =>
              Head(tool_out.value) \notin
                 {"An error occurred while retrieving the price for",
                  "An error occurred while retrieving historical data for"}

\* The historical tool was called while the provider raised, and returned
\* its error sentence.
C13_Witness ==
    /\ tool_out.done
    /\ tool_in.tool = "retrieve_historical_stock_price"
    /\ tool_in.lookup = "history_raises"
    /\ ~tool_out.raised
    /\ Head(tool_out.value) = "An error occurred while retrieving historical data for"

\* ------------------------------------------------------------------ wire format

\* The specification of the text stream_generator yields for one event.  A
\* yielded text is a sequence of atoms: each of the characters { } " ' : ,
\* backslash, space and line break is an atom of its own, and a run of other
\* characters is one atom.

\* Longest text (in atoms) explored inside an event.
MaxTextLen == 2

WireAlphabet == {"a", " ", "\"", "\\", "\n"}

WireTexts == UNION {[1..n -> WireAlphabet] : n \in 0..MaxTextLen}

Quote == "\""

\* "name" as written in the f-strings.
Quoted(name) == <<Quote, name, Quote>>

\* main.py:105, 121, 135, 149, 152, 156  the start and the end of each
\* yielded text.
Opening(type) ==
    <<"data", ":", " ", "{">> \o Quoted("type") \o <<":", " ">> \o Quoted(type)
    \o <<",", " ">>
Closing == <<"}", "\n", "\n">>

\* The keys of an argument mapping, in the order of the mapping.
ArgKeys(args) ==
    IF "start_date" \in DOMAIN args
    THEN <<"symbol", "start_date", "end_date">>
    ELSE <<"symbol">>

\* main.py:121  {tool_call['args']}: the f-string formats the dict with
\* str(), which writes keys and values in single quotes.
RECURSIVE DictItems(_, _, _)
DictItems(args, keys, i) ==
    IF i > Len(keys) THEN <<>>
    ELSE (IF i > 1 THEN <<",", " ">> ELSE <<>>)
         \o <<"'", keys[i], "'", ":", " ", "'", args[keys[i]], "'">>
         \o DictItems(args, keys, i + 1)

DictStr(args) == <<"{">> \o DictItems(args, ArgKeys(args), 1) \o <<"}">>

\* main.py:105-156  the text yielded for an event: every text is put between
\* the quotes as it is.
Serialize(ev) ==
    CASE ev.type = "connection" ->
             Opening("connection") \o Quoted("message") \o <<":", " ", Quote>>
             \o ev.message \o <<Quote>> \o Closing
      [] ev.type = "complete" ->
             Opening("complete") \o Quoted("message") \o <<":", " ", Quote>>
             \o ev.message \o <<Quote>> \o Closing
      [] ev.type = "tool_call" ->
             Opening("tool_call") \o Quoted("name") \o <<":", " ", Quote, ev.name, Quote>>
             \o <<",", " ">> \o Quoted("args") \o <<":", " ">> \o DictStr(ev.args)
             \o Closing
      [] ev.type = "content" ->
             Opening("content") \o Quoted("text") \o <<":", " ", Quote>>
             \o ev.text \o <<Quote>> \o Closing
      [] ev.type = "tool_result" ->
             Opening("tool_result") \o Quoted("content") \o <<":", " ", Quote>>
             \o ev.content \o <<Quote>> \o Closing
      [] OTHER ->
             Opening("error") \o Quoted("message") \o <<":", " ", Quote>>
             \o ev.message \o <<Quote>> \o Closing

\* The events stream_generator may have to send: the fixed ones, the chunks
\* of every content, every tool-result text and exception message, and the
\* tool calls of the model.
WireEvents ==
    {ConnectionEvent, CompleteEvent}
    \cup {ErrorEvent(t) : t \in WireTexts}
    \cup {ToolResultEvent(t) : t \in WireTexts \ {<<>>}}
    \cup UNION {{ContentEvents(t)[k] : k \in 1..Len(ContentEvents(t))} : t \in WireTexts}
    \cup {ToolCallEvent(c) : c \in {RealtimeCall, HistoricalCall, UnknownCall}}

InitWire ==
    /\ AtRest
    /\ content_in = <<>>
    /\ chunks_out = [done |-> FALSE, events |-> <<>>]
    /\ tool_in = NoCall
    /\ tool_out = NotCalled
    /\ wire_in \in WireEvents
    /\ wire_out = NotSent

\* main.py:105-156  one yield of stream_generator.
yield_event ==
    /\ ~wire_out.done
    /\ wire_out' = [done |-> TRUE, text |-> Serialize(wire_in)]
    /\ UNCHANGED <<cached_agent, built, attempts, startup, busy, reqVars,
                   content_in, chunks_out, toolVars, wire_in>>

NextWire == yield_event

SpecWire == InitWire /\ [][NextWire]_vars

\* --- what a JSON object on one line is, over atoms.  A position of 0 means
\* that the text is not well formed.

RECURSIVE SkipSpaces(_, _)
SkipSpaces(s, i) ==
    IF i >= 1 /\ i <= Len(s) /\ s[i] = " " THEN SkipSpaces(s, i + 1) ELSE i

\* The position after the string literal whose characters start at i.
RECURSIVE JsonStringBody(_, _)
JsonStringBody(s, i) ==
    IF i > Len(s) THEN 0
    ELSE IF s[i] = Quote THEN i + 1
    ELSE IF s[i] = "\n" THEN 0
    ELSE IF s[i] = "\\"
         THEN IF i + 1 <= Len(s) /\ s[i + 1] \in {Quote, "\\"}
              THEN JsonStringBody(s, i + 2)
              ELSE 0
    ELSE JsonStringBody(s, i + 1)

JsonString(s, i) ==
    IF i >= 1 /\ i <= Len(s) /\ s[i] = Quote THEN JsonStringBody(s, i + 1) ELSE 0

RECURSIVE JsonValue(_, _)
RECURSIVE JsonMembers(_, _)

\* The position after the members "key": value, ... and the closing brace.
JsonMembers(s, i) ==
    LET k == JsonString(s, SkipSpaces(s, i))
        c == IF k = 0 THEN 0 ELSE SkipSpaces(s, k)
        v == IF c = 0 \/ c > Len(s) \/ s[c] # ":" THEN 0
             ELSE JsonValue(s, SkipSpaces(s, c + 1))
        e == IF v = 0 THEN 0 ELSE SkipSpaces(s, v)
    IN  IF e = 0 \/ e > Len(s) THEN 0
        ELSE IF s[e] = "}" THEN e + 1
        ELSE IF s[e] = "," THEN JsonMembers(s, e + 1)
        ELSE 0

JsonObject(s, i) ==
    IF i >= 1 /\ i <= Len(s) /\ s[i] = "{"
    THEN LET j == SkipSpaces(s, i + 1)
         IN  IF j <= Len(s) /\ s[j] = "}" THEN j + 1 ELSE JsonMembers(s, j)
    ELSE 0

JsonValue(s, i) ==
    IF i >= 1 /\ i <= Len(s) /\ s[i] = Quote THEN JsonString(s, i)
    ELSE JsonObject(s, i)

EventTypes == {"connection", "tool_call", "content", "tool_result", "complete", "error"}

\* data: <one JSON object whose first member is "type": "<an event type>">
\* on a single line, then a blank line.
WellFormedEvent(text) ==
    /\ Len(text) >= 6
    /\ SubSeq(text, 1, 3) = <<"data", ":", " ">>
    /\ SubSeq(text, Len(text) - 1, Len(text)) = <<"\n", "\n">>
    /\ LET payload == SubSeq(text, 4, Len(text) - 2)
       IN  /\ \A i \in 1..Len(payload) : payload[i] # "\n"
           /\ JsonObject(payload, 1) = Len(payload) + 1
           /\ Len(payload) >= 9
           /\ SubSeq(payload, 1, 6) = <<"{", Quote, "type", Quote, ":", " ">>
           /\ payload[7] = Quote
           /\ payload[8] \in EventTypes
           /\ payload[9] = Quote

\* C14: every text yielded on the /invoke stream is "data: ", one JSON object
\* with a type member on a single line, and a blank line, whatever the
\* arguments, the content, the tool-result text or the exception message.
C14_EventsWellFormed == wire_out.done => WellFormedEvent(wire_out.text)

\* C15 (state part): a conversation that has started begins with the user
\* turn built from the request's query and holds no other user turn.
C15_State ==
    \A r \in Reqs :
        messages[r] # <<>> =>
            /\ messages[r][1] = HumanMessage(Query(r))
            /\ \A i \in 2..Len(messages[r]) : messages[r][i].role # "user"

\* C15 (step part): a step leaves the turns already in the conversation as
\* they are, in their places, and adds turns only at the end.
C15_Step(r) ==
    /\ Len(messages'[r]) >= Len(messages[r])
    /\ SubSeq(messages'[r], 1, Len(messages[r])) = messages[r]

\* C15: for the duration of a request the conversation starts with exactly
\* one user turn, the one built from the query, and is append-only: no turn
\* is changed, reordered or removed and no other user turn is added.
C15_AppendOnly == []C15_State /\ [][\A r \in Reqs : C15_Step(r)]_vars

\* A conversation that grew by a Model step, a ToolExec step and another
\* Model step after its user turn.
C15_Witness ==
    \E r \in Reqs :
        /\ Len(messages[r]) >= 4
        /\ messages[r][1] = HumanMessage(Query(r))
        /\ IsAssistant(messages[r][2])
        /\ IsToolResult(messages[r][3])
        /\ IsAssistant(messages[r][Len(messages[r])])

\* The request the server would take up next.
NextRequest(q) ==
    /\ pc[q] = "idle"
    /\ \A p \in Reqs : p < q => pc[p] # "idle"

\* The control loop of r is in progress.
InProgress(r) == pc[r] \in {"agent", "action"}

\* C16: while the control loop of a request is in progress, on /invoke-simple
\* as on /invoke, every Model and ToolExec step gives the event loop back, so
\* a GET /health that arrives can be answered before the request finishes.
C16_OthersProgress ==
    \A r \in Reqs : \A q \in Reqs :
        (InProgress(r) /\ NextRequest(q)) => ENABLED health(q)

\* The step changed the conversation or the stream of r.
Touched(r) == messages'[r] # messages[r] \/ events'[r] # events[r]

\* The step is a step of the handler or of the run of r.
Acting(r) == pc'[r] # pc[r] \/ steps'[r] # steps[r]

\* C17 (state part): the conversation of a request starts with the user turn
\* of its own query, and the events sent to its client are those of its own
\* conversation.
C17_State ==
    \A r \in Reqs :
        /\ messages[r] # <<>> => messages[r][1].content = Query(r)
        /\ (kind[r] = "stream" /\ events[r] # <<>>) =>
               BodyEvents(r) = EventsFor(messages[r])
        /\ kind[r] # "stream" => events[r] = <<>>

\* C17 (step part): the conversation and the stream of a request change only
\* in a step of that request, which changes those of no other request; the
\* tool-result turns of a ToolExec step answer the calls of the request's own
\* last assistant turn.
C17_Step(r) ==
    Touched(r) =>
        /\ Acting(r)
        /\ \A q \in Reqs \ {r} : ~Touched(q) /\ ~Acting(q)
        /\ pc[r] = "action" =>
              LET calls == messages[r][Len(messages[r])].tool_calls
              IN  /\ Len(NewMessages(r)) = Len(calls)
                  /\ \A j \in 1..Len(calls) :
                        NewMessages(r)[j].tool_call_id = calls[j].id

\* C17: in every interleaving the conversation of a request holds its own
\* user turn and the turns of its own steps only, and its events are derived
\* from its own conversation only.
C17_OwnConversation == []C17_State /\ [][\A r \in Reqs : C17_Step(r)]_vars

\* Two streaming requests in flight together whose conversations and streams
\* went different ways.
C17_Witness ==
    /\ kind[1] = "stream" /\ kind[2] = "stream"
    /\ InProgress(1) /\ InProgress(2)
    /\ Len(messages[1]) >= 3 /\ Len(messages[2]) >= 2
    /\ messages[1][2] # messages[2][2]
    /\ events[1] # events[2]

\* The turn asks for a tool that is not one of the registered tools.
AsksUnknownTool(m) ==
    /\ IsAssistant(m)
    /\ \E j \in 1..Len(m.tool_calls) : m.tool_calls[j].name \notin tools

\* C18: an assistant turn that asks for an unregistered tool ends the run:
\* no tool-result turn and no further assistant turn follows it, and once
\* the request is over the caller has been given an error, as the last
\* event on /invoke or as the {error: ...} body on /invoke-simple.
C18_UnknownToolFatal ==
    \A r \in Reqs : \A i \in 1..Len(messages[r]) :
        AsksUnknownTool(messages[r][i]) =>
            /\ i = Len(messages[r])
            /\ pc[r] \in {"action", "done"}
            /\ pc[r] = "done" =>
                  IF kind[r] = "stream"
                  THEN LastEvent(r).type = "error"
                  ELSE "error" \in DOMAIN response[r].body

\* The step takes up request r, tries to construct the agent and fails.
ConstructionFails(r) ==
    /\ pc[r] = "idle"
    /\ pc'[r] # "idle"
    /\ attempts' = attempts + 1
    /\ built' = built

\* C19 (state part): a stream that has sent an event has its agent; a
\* /invoke request whose construction failed has sent no event at all, has
\* no conversation and ended with the exception leaving the handler.
C19_State ==
    \A r \in Reqs :
        /\ (kind[r] = "stream" /\ events[r] # <<>>) => agent[r] # None
        /\ pc[r] = "raised" =>
              /\ kind[r] = "stream"
              /\ agent[r] = None
              /\ events[r] = <<>>
              /\ messages[r] = <<>>
              /\ response[r].status = 500

\* C19 (step part): a construction that fails for a /invoke request leaves
\* the handler as an exception, for a /invoke-simple request it is answered
\* with the {error: ...} body; a request that ended with the exception
\* stays so and never sends an event.
C19_Step(r) ==
    /\ (ConstructionFails(r) /\ kind'[r] = "stream") =>
           /\ pc'[r] = "raised"
           /\ events'[r] = <<>>
    /\ (ConstructionFails(r) /\ kind'[r] = "simple") =>
           /\ pc'[r] = "done"
           /\ response'[r] = SimpleError(ConstructionError)
    /\ pc[r] = "raised" => (pc'[r] = "raised" /\ events'[r] = <<>>)

\* C19: on /invoke the agent is obtained before the stream is opened and
\* outside its exception handler, so a failed construction sends no event,
\* neither connection nor error, and is an unhandled exception, while on
\* /invoke-simple the same failure is answered with an {error: ...} body.
C19_ConstructionOutsideTry == []C19_State /\ [][\A r \in Reqs : C19_Step(r)]_vars

\* A /invoke request that ended with the exception of the construction and
\* a /invoke-simple request answered with the error body for the same
\* failure.
C19_Witness ==
    \E r \in Reqs : \E q \in Reqs :
        /\ kind[r] = "stream" /\ pc[r] = "raised" /\ events[r] = <<>>
        /\ kind[q] = "simple" /\ pc[q] = "done"
        /\ response[q] = SimpleError(ConstructionError)

====
